---------------------------- MODULE Spec2Model ----------------------------
(***************************************************************************)
(* Model of the admin endpoint POST of src/pages/api/update-and-deploy.js  *)
(* (src/unnamed/part_000): bearer-token extraction, configuration check,   *)
(* token verification, e-mail allowlist, download / mutate / upload of the *)
(* properties.json blob and the deploy-hook call.                          *)
(*                                                                         *)
(* Each request r runs the handler; the handler's await points are the     *)
(* steps of the model: Start (request.json() up to the getUser call),      *)
(* AuthReturn (getUser result up to the download call), DownloadReturn     *)
(* (download result, mutation, up to the upload call), UploadReturn        *)
(* (upload result up to the fetch call or the response) and WebhookReturn  *)
(* (fetch result and the response).  The blob store is the only state      *)
(* shared by requests.                                                     *)
(***************************************************************************)
EXTENDS Integers, Sequences, FiniteSets

VARIABLES
  env,         \* process.env: the settings the handler reads (lines 20-24)
  store,       \* the blob properties.json of bucket properties
  hist,        \* the reads and writes of the blob, in the order the store served them
  pc,          \* per request: the call the handler awaits
  req,         \* per request: the Authorization header and the body
  user,        \* per request: the result of auth.getUser(token)
  dl,          \* per request: the result of the download
  downloaded,  \* per request: props as read, before the mutation
  props,       \* per request: props
  blob,        \* per request: the text to upload
  hookOut,     \* per request: the result of fetch(VERCEL_HOOK)
  calls,       \* per request: the outside calls the handler has made
  resp         \* per request: the response

vars == <<env, store, hist, pc, req, user, dl, downloaded, props, blob, hookOut, calls, resp>>

----------------------------------------------------------------------------
(* Bounds of the model *)

\* property.x ranges over 1..MaxX
MaxX == 2
\* the collection stored before the first request has at most MaxInitLen elements
MaxInitLen == 2
\* the ADMIN_EMAILS value has at most MaxEnvLen tokens (commas and addresses)
MaxEnvLen == 3

Requests == {"r1", "r2"}

SeqsUpTo(S, n) == UNION {[1..k -> S] : k \in 0..n}

----------------------------------------------------------------------------
(* Strings: the few JavaScript string functions the handler uses, on the   *)
(* finite universe of strings of the model                                 *)

\* s.trim()
Trim(s) ==
  CASE s = " A@X " -> "A@X"
    [] s = " " -> ""
    [] OTHER -> s

\* s.toLowerCase()
ToLowerCase(s) ==
  CASE s = "A@X" -> "a@x"
    [] s = " A@X " -> " a@x "
    [] s = "B@X" -> "b@x"
    [] OTHER -> s

\* A string is a sequence of tokens; "," is the separator and every other
\* token is a run of characters without a comma.
Comma == ","

RECURSIVE FirstComma(_, _)
FirstComma(s, i) ==
  IF i > Len(s) THEN 0
  ELSE IF s[i] = Comma THEN i
  ELSE FirstComma(s, i + 1)

\* the text of a comma-free run of at most one token
RunText(s) == IF s = <<>> THEN "" ELSE s[1]

\* str.split(','): the comma-free runs, empty ones included (''.split(',') is [''])
RECURSIVE Split(_)
Split(s) ==
  LET c == FirstComma(s, 1) IN
    IF c = 0 THEN <<RunText(s)>>
    ELSE <<RunText(SubSeq(s, 1, c - 1))>> \o Split(SubSeq(s, c + 1, Len(s)))

\* an environment variable: unset, or a string
Unset == [set |-> FALSE, val |-> <<>>]
EnvStr(s) == [set |-> TRUE, val |-> s]

\* (process.env.ADMIN_EMAILS || '').split(',').map(s => s.trim().toLowerCase())
ADMIN_EMAILS(v) ==
  LET parts == Split(IF v.set THEN v.val ELSE <<>>)
  IN  [i \in 1..Len(parts) |-> ToLowerCase(Trim(parts[i]))]

\* ADMIN_EMAILS.includes(userEmail)
Includes(list, e) == \E i \in 1..Len(list) : list[i] = e

----------------------------------------------------------------------------
(* The Authorization header: a string of words separated by single spaces; *)
(* an absent header reads as '' (headers.get(...) || '').                  *)

NoHeader == [present |-> FALSE, words |-> <<"">>]
Header(w) == [present |-> TRUE, words |-> w]

\* request.headers.get('authorization') || ''
AuthHeaderWords(h) == IF h.present THEN h.words ELSE <<"">>

\* authHeader.startsWith('Bearer ')
StartsWithBearer(w) == Len(w) >= 2 /\ w[1] = "Bearer"

\* authHeader.startsWith('Bearer ') ? authHeader.split(' ')[1] : null:
\* the token, "" standing for every falsy value (null and '')
Token(h) ==
  LET w == AuthHeaderWords(h) IN
    IF StartsWithBearer(w) THEN w[2] ELSE ""

----------------------------------------------------------------------------
(* Property records and their ids.  An id is a JSON number, a JSON string  *)
(* or absent (undefined); a number is written by its decimal text.         *)

NumId(s) == [t |-> "num", v |-> s]
StrId(s) == [t |-> "str", v |-> s]
UndefId == [t |-> "undef", v |-> ""]

IdVals == {NumId("1"), StrId("1"), StrId("2"), UndefId}

\* faulty variant: ids compared without coercion (the type is part of the text)
StrictId(id) == id.t \o ":" \o id.v

\* String(id)
StringOf(id) == IF id.t = "undef" THEN "undefined" ELSE id.v

\* a property of a request body: an object {id, x}, or a falsy value (absent, null)
Prop(id, x) == [truthy |-> TRUE, id |-> id, x |-> x]
NoProp == [truthy |-> FALSE, id |-> UndefId, x |-> 0]

Properties == {Prop(id, x) : id \in IdVals, x \in 1..MaxX}

----------------------------------------------------------------------------
(* JSON text of the collection: a sequence of tokens, "[", one token per   *)
(* object and "]".  An id string is written quoted, an id number unquoted, *)
(* an undefined id is left out.  The empty text is the empty sequence.     *)

Literal(q, s) == [q |-> q, s |-> s]
NoKey == Literal(FALSE, "")
Open == [k |-> "[", id |-> NoKey, x |-> 0]
Close == [k |-> "]", id |-> NoKey, x |-> 0]
Obj(id, x) == [k |-> "obj", id |-> id, x |-> x]

EncodeId(id) ==
  CASE id.t = "str" -> Literal(TRUE, id.v)
    [] id.t = "num" -> Literal(FALSE, id.v)
    [] OTHER -> NoKey

DecodeId(l) ==
  IF l.q THEN StrId(l.s)
  ELSE IF l.s = "" THEN UndefId
  ELSE NumId(l.s)

\* JSON.stringify(props, null, 2)
Stringify(ps) ==
  <<Open>> \o [i \in 1..Len(ps) |-> Obj(EncodeId(ps[i].id), ps[i].x)] \o <<Close>>

\* whether JSON.parse(txt) returns (an array) rather than throws
Parses(txt) ==
  /\ Len(txt) >= 2
  /\ txt[1] = Open
  /\ txt[Len(txt)] = Close
  /\ \A i \in 2..(Len(txt) - 1) : txt[i].k = "obj"

\* JSON.parse(txt)
Parse(txt) ==
  [i \in 1..(Len(txt) - 2) |-> Prop(DecodeId(txt[i + 1].id), txt[i + 1].x)]

----------------------------------------------------------------------------
(* The blob properties.json of bucket properties                           *)

Absent == [exists |-> FALSE, txt |-> <<>>]
Blob(txt) == [exists |-> TRUE, txt |-> txt]

\* faulty variant: the downloaded text is not used
ReadPropsIgnoring(hasData, txt) == <<>>

\* lines 50-57: props after the read step, given the downloaded text
\* (downloadData is null when the download failed)
ReadProps(hasData, txt) ==
  IF hasData /\ txt # <<>> THEN Parse(txt) ELSE <<>>

\* faulty variant: only the first element with the id is replaced
RECURSIVE MapFirstOnly(_, _)
MapFirstOnly(ps, property) ==
  IF ps = <<>> THEN <<>>
  ELSE IF StringOf(ps[1].id) = StringOf(property.id) THEN <<property>> \o Tail(ps)
  ELSE <<ps[1]>> \o MapFirstOnly(Tail(ps), property)

\* props.map(p => String(p.id) === String(property.id) ? property : p)
RECURSIVE Map(_, _)
Map(ps, property) ==
  IF ps = <<>> THEN <<>>
  ELSE <<IF StringOf(ps[1].id) = StringOf(property.id) THEN property ELSE ps[1]>>
       \o Map(Tail(ps), property)

\* props.filter(p => String(p.id) !== String(property.id))
RECURSIVE Filter(_, _)
Filter(ps, property) ==
  IF ps = <<>> THEN <<>>
  ELSE (IF StringOf(ps[1].id) # StringOf(property.id) THEN <<ps[1]>> ELSE <<>>)
       \o Filter(Tail(ps), property)

KnownActions == {"add", "edit", "delete"}

\* lines 63-68: the mutated collection, for a known action
Apply(action, property, ps) ==
  CASE action = "add" -> Append(ps, property)
    [] action = "edit" -> Map(ps, property)
    [] action = "delete" -> Filter(ps, property)

----------------------------------------------------------------------------
(* Responses                                                               *)

None == [status |-> 0, ok |-> FALSE, error |-> ""]
Error(status, msg) == [status |-> status, ok |-> FALSE, error |-> msg]
Ok200 == [status |-> 200, ok |-> TRUE, error |-> ""]

\* messages of the failures of the outside world
JsonSyntaxMsg == "Unexpected token"
DestructureMsg == "Cannot destructure property 'action' of 'body' as it is null."
NetworkMsg == "fetch failed"
StorageMsg == "storage unavailable"

----------------------------------------------------------------------------
(* Requests, configuration and the outcomes of the outside world           *)

Body(kind, action, property) == [kind |-> kind, action |-> action, property |-> property]
\* a body that is no JSON text, and the JSON text null
Unparseable == Body("unparseable", "", NoProp)
NullBody == Body("null", "", NoProp)
\* a JSON object; action "" stands for a falsy or missing action
ObjBody(action, property) == Body("object", action, property)

NoRequest == [hdr |-> NoHeader, body |-> NullBody]

\* the result of supabaseForAuth.auth.getUser(token)
Email(s) == [has |-> TRUE, v |-> s]
NoEmail == [has |-> FALSE, v |-> ""]
AuthResult(kind, email) == [kind |-> kind, email |-> email]
NoAuth == AuthResult("none", NoEmail)
AuthError == AuthResult("error", NoEmail)
AuthNoUser == AuthResult("nouser", NoEmail)
AuthThrow == AuthResult("throw", NoEmail)
AuthUser(email) == AuthResult("user", email)

\* lines 20-21: VITE_SUPABASE_URL || SUPABASE_URL, VITE_SUPABASE_ANON_KEY || SUPABASE_ANON_KEY
SUPABASE_URL(e) == e.viteUrl \/ e.url
SUPABASE_ANON(e) == e.viteAnon \/ e.anon

\* line 26: all three required settings are there
ConfigComplete(e) == SUPABASE_URL(e) /\ SUPABASE_ANON(e) /\ e.service

\* lines 12-28: the response the handler gives before it calls getUser, None if
\* it goes on to call it
StartResponse(rq, e) ==
  IF rq.body.kind = "unparseable" THEN Error(500, JsonSyntaxMsg)
  ELSE IF Token(rq.hdr) = "" THEN Error(401, "Unauthorized - missing token")
  ELSE IF ~ConfigComplete(e) THEN Error(500, "Server misconfiguration")
  ELSE None

\* line 37: (userData.user.email || '').toLowerCase()
UserEmail(u) == ToLowerCase(IF u.email.has THEN u.email.v ELSE "")

\* faulty variant: no allowlist check
AuthResponseNoAllowlist(u, e) ==
  IF u.kind = "throw" THEN Error(500, NetworkMsg)
  ELSE IF u.kind # "user" THEN Error(401, "Invalid token")
  ELSE None

\* lines 32-40: the response after getUser returned u, None if the handler goes
\* on to the storage
AuthResponse(u, e) ==
  IF u.kind = "throw" THEN Error(500, NetworkMsg)
  ELSE IF u.kind # "user" THEN Error(401, "Invalid token")
  ELSE IF ~Includes(ADMIN_EMAILS(e.admins), UserEmail(u)) THEN Error(403, "Forbidden - not an admin")
  ELSE None

\* the result of storage.from(BUCKET).download(FILE): the data, an error with a
\* status, or an exception
DownloadOutcomes(b) ==
  (IF b.exists THEN {[kind |-> "data", status |-> 200]} ELSE {[kind |-> "error", status |-> 404]})
  \cup {[kind |-> "error", status |-> 500], [kind |-> "throw", status |-> 0]}

NoDownload == [kind |-> "none", status |-> 0]

\* faulty variant: a not-found error is fatal too
AnyDownloadError(o) == o.kind = "error"

\* line 51: downloadError && downloadError.status !== 404
ReadFailed(o) == o.kind = "error" /\ o.status # 404

\* faulty variant: an unknown action is reported as a bad request
MutationResponseLenient(body) ==
  IF body.kind = "null" THEN Error(500, DestructureMsg)
  ELSE IF body.action = "" \/ ~body.property.truthy THEN Error(400, "Bad request")
  ELSE IF body.action \notin KnownActions THEN Error(400, "Bad request")
  ELSE None

\* lines 60-71: the response of the validation of the mutation request, None if
\* the mutation is applied
MutationResponse(body) ==
  IF body.kind = "null" THEN Error(500, DestructureMsg)
  ELSE IF body.action = "" \/ ~body.property.truthy THEN Error(400, "Bad request")
  ELSE IF body.action \notin KnownActions THEN Error(400, "Unknown action")
  ELSE None

\* faulty variant: the deploy hook is not awaited
UploadedResponseDetached(e) == Ok200

\* lines 81-90: the response right after a successful upload: none yet while the
\* handler awaits the deploy hook
UploadedResponse(e) == IF e.hook THEN None ELSE Ok200

\* faulty variant: an exception of fetch reaches the catch-all
HookResponseUncaught(o) == IF o = "throw" THEN Error(500, NetworkMsg) ELSE Ok200

\* lines 82-90: the response once fetch(VERCEL_HOOK) has resolved (any status) or
\* thrown (the exception is caught and logged)
HookResponse(o) == Ok200

HookOutcomes == {"resolved 200", "resolved 500", "throw"}

----------------------------------------------------------------------------
(* The handler                                                             *)

Respond(r, response) ==
  /\ resp' = [resp EXCEPT ![r] = response]
  /\ pc' = [pc EXCEPT ![r] = "done"]

\* lines 12-32: request.json(), the token, the configuration, the getUser call
Start(r, headers, bodies) ==
  /\ pc[r] = "idle"
  /\ \E h \in headers, b \in bodies :
       LET rq == [hdr |-> h, body |-> b]
           answer == StartResponse(rq, env)
       IN  /\ req' = [req EXCEPT ![r] = rq]
           /\ IF answer # None
                THEN /\ Respond(r, answer)
                     /\ UNCHANGED calls
                ELSE /\ pc' = [pc EXCEPT ![r] = "getUser"]
                     /\ calls' = [calls EXCEPT ![r] = @ \cup {"getUser"}]
                     /\ UNCHANGED resp
  /\ UNCHANGED <<env, store, hist, user, dl, downloaded, props, blob, hookOut>>

\* lines 32-49: the result of getUser, the allowlist, the download call
AuthReturn(r, users) ==
  /\ pc[r] = "getUser"
  /\ \E u \in users :
       LET answer == AuthResponse(u, env) IN
         /\ user' = [user EXCEPT ![r] = u]
         /\ IF answer # None
              THEN /\ Respond(r, answer)
                   /\ UNCHANGED calls
              ELSE /\ pc' = [pc EXCEPT ![r] = "download"]
                   /\ calls' = [calls EXCEPT ![r] = @ \cup {"download"}]
                   /\ UNCHANGED resp
  /\ UNCHANGED <<env, store, hist, req, dl, downloaded, props, blob, hookOut>>

\* lines 49-75: the result of the download, the parsed collection, the
\* mutation, the upload call
DownloadReturn(r) ==
  /\ pc[r] = "download"
  /\ \E o \in DownloadOutcomes(store) :
     /\ dl' = [dl EXCEPT ![r] = o]
     /\ IF o.kind = "throw" THEN
            /\ Respond(r, Error(500, NetworkMsg))
            /\ UNCHANGED <<hist, downloaded, props, blob, calls>>
          ELSE IF ReadFailed(o) THEN
            /\ Respond(r, Error(500, "Failed to read properties.json: " \o StorageMsg))
            /\ UNCHANGED <<hist, downloaded, props, blob, calls>>
          ELSE IF o.kind = "data" /\ store.txt # <<>> /\ ~Parses(store.txt) THEN
            /\ Respond(r, Error(500, JsonSyntaxMsg))
            /\ hist' = Append(hist, [r |-> r, op |-> "download"])
            /\ UNCHANGED <<downloaded, props, blob, calls>>
          ELSE
            LET read == ReadProps(o.kind = "data", store.txt)
                answer == MutationResponse(req[r].body)
            IN  /\ hist' = Append(hist, [r |-> r, op |-> "download"])
                /\ downloaded' = [downloaded EXCEPT ![r] = read]
                /\ IF answer # None
                     THEN /\ Respond(r, answer)
                          /\ props' = [props EXCEPT ![r] = read]
                          /\ UNCHANGED <<blob, calls>>
                     ELSE LET new == Apply(req[r].body.action, req[r].body.property, read) IN
                          /\ props' = [props EXCEPT ![r] = new]
                          /\ blob' = [blob EXCEPT ![r] = Stringify(new)]
                          /\ pc' = [pc EXCEPT ![r] = "upload"]
                          /\ calls' = [calls EXCEPT ![r] = @ \cup {"upload"}]
                          /\ UNCHANGED resp
  /\ UNCHANGED <<env, store, req, user, hookOut>>

\* lines 75-90: the result of the upload; on success the blob is replaced, and
\* the handler calls the deploy hook if one is configured, else responds
UploadReturn(r) ==
  /\ pc[r] = "upload"
  /\ \E o \in {"ok", "error", "throw"} :
       IF o = "ok" THEN
         /\ store' = Blob(blob[r])
         /\ hist' = Append(hist, [r |-> r, op |-> "upload"])
         /\ resp' = [resp EXCEPT ![r] = UploadedResponse(env)]
         /\ IF env.hook
              THEN /\ pc' = [pc EXCEPT ![r] = "fetch"]
                   /\ calls' = [calls EXCEPT ![r] = @ \cup {"fetch"}]
              ELSE /\ pc' = [pc EXCEPT ![r] = "done"]
                   /\ UNCHANGED calls
       ELSE
         /\ Respond(r, IF o = "error" THEN Error(500, "Upload failed: " \o StorageMsg)
                                      ELSE Error(500, NetworkMsg))
         /\ UNCHANGED <<store, hist, calls>>
  /\ UNCHANGED <<env, req, user, dl, downloaded, props, blob, hookOut>>

\* lines 83-90: the result of fetch(VERCEL_HOOK), and the response
WebhookReturn(r) ==
  /\ pc[r] = "fetch"
  /\ \E o \in HookOutcomes :
       /\ hookOut' = [hookOut EXCEPT ![r] = o]
       /\ Respond(r, HookResponse(o))
  /\ UNCHANGED <<env, store, hist, req, user, dl, downloaded, props, blob, calls>>

----------------------------------------------------------------------------
(* Initial states and inputs                                               *)

InitWith(envs, stores) ==
  /\ env \in envs
  /\ store \in stores
  /\ hist = <<>>
  /\ pc = [r \in Requests |-> "idle"]
  /\ req = [r \in Requests |-> NoRequest]
  /\ user = [r \in Requests |-> NoAuth]
  /\ dl = [r \in Requests |-> NoDownload]
  /\ downloaded = [r \in Requests |-> <<>>]
  /\ props = [r \in Requests |-> <<>>]
  /\ blob = [r \in Requests |-> <<>>]
  /\ hookOut = [r \in Requests |-> "none"]
  /\ calls = [r \in Requests |-> {}]
  /\ resp = [r \in Requests |-> None]

Env(viteUrl, url, viteAnon, anon, service, hook, admins) ==
  [viteUrl |-> viteUrl, url |-> url, viteAnon |-> viteAnon, anon |-> anon,
   service |-> service, hook |-> hook, admins |-> admins]

\* a complete configuration whose allowlist is "a@x"
AdminEnv(hook) == Env(TRUE, FALSE, TRUE, FALSE, TRUE, hook, EnvStr(<<"a@x">>))

Bearer == Header(<<"Bearer", "tok">>)
Admin == AuthUser(Email("a@x"))

\* every kind of body: no JSON, null, every action with every property, and
\* the bodies with a falsy action or a falsy property
AllBodies ==
  {Unparseable, NullBody}
    \cup {ObjBody(a, p) : a \in KnownActions \cup {"bogus"}, p \in Properties}
    \cup {ObjBody(a, NoProp) : a \in {"add", "bogus", ""}}
    \cup {ObjBody("", Prop(StrId("1"), 1))}

\* the collections stored before the first request: their elements carry an id
StoredProperties == {p \in Properties : p.id # UndefId}
StoredCollections == SeqsUpTo(StoredProperties, MaxInitLen)

\* the blob before the first request: absent, empty, or what an upload wrote
InitialStores == {Absent, Blob(<<>>)} \cup {Blob(Stringify(c)) : c \in StoredCollections}

\* One authorized or rejected request against every stored collection
Init == InitWith({AdminEnv(h) : h \in BOOLEAN}, InitialStores)

Next ==
  \E r \in {"r1"} :
    \/ Start(r, {Bearer}, AllBodies)
    \/ AuthReturn(r, {Admin, AuthError})
    \/ DownloadReturn(r)
    \/ UploadReturn(r)
    \/ WebhookReturn(r)

Spec == Init /\ [][Next]_vars

\* One request under every configuration, header and auth result
Configs ==
  {Env(vu, u, va, a, sv, h, ad) :
     vu \in BOOLEAN, u \in BOOLEAN, va \in BOOLEAN, a \in BOOLEAN, sv \in BOOLEAN,
     h \in BOOLEAN, ad \in {Unset}}

\* the values of ADMIN_EMAILS: token sequences in which no two addresses are adjacent
AdminTokens == {Comma, " A@X ", "b@x", " "}
AdminEnvVals ==
  {Unset} \cup
  {EnvStr(v) : v \in {w \in SeqsUpTo(AdminTokens, MaxEnvLen) :
                         \A i \in 1..(Len(w) - 1) : w[i] = Comma \/ w[i + 1] = Comma}}

AuthEnvs == {[c EXCEPT !.admins = ad] : c \in Configs, ad \in AdminEnvVals}

AuthHeaders ==
  {NoHeader, Header(<<"">>), Header(<<"Basic", "tok">>), Header(<<"Bearer">>),
   Header(<<"Bearer", "">>), Header(<<"bearer", "tok">>), Header(<<"Bearer", "", "tok">>),
   Bearer}

AuthBodies == {Unparseable, NullBody, ObjBody("add", Prop(StrId("1"), 1))}

AuthUsers ==
  {AuthError, AuthNoUser, AuthThrow}
    \cup {AuthUser(e) : e \in {NoEmail, Email(""), Email("A@X"), Email("b@x"), Email("e@x")}}

InitAuth == InitWith(AuthEnvs, {Absent})

NextAuth ==
  \E r \in {"r1"} :
    \/ Start(r, AuthHeaders, AuthBodies)
    \/ AuthReturn(r, AuthUsers)
    \/ DownloadReturn(r)
    \/ UploadReturn(r)
    \/ WebhookReturn(r)

SpecAuth == InitAuth /\ [][NextAuth]_vars

\* Two authorized requests at once on a small collection
P1 == Prop(StrId("1"), 1)
P2 == Prop(StrId("2"), 1)

RaceBodies == {ObjBody(a, p) : a \in KnownActions, p \in {P1, P2}}

InitRace ==
  InitWith({AdminEnv(h) : h \in BOOLEAN},
           {Absent, Blob(Stringify(<<>>)), Blob(Stringify(<<P1>>))})

NextRace ==
  \E r \in Requests :
    \/ Start(r, {Bearer}, RaceBodies)
    \/ AuthReturn(r, {Admin})
    \/ DownloadReturn(r)
    \/ UploadReturn(r)
    \/ WebhookReturn(r)

SpecRace == InitRace /\ [][NextRace]_vars

----------------------------------------------------------------------------
(* Vocabulary of the properties                                            *)

\* the stored collection: what a reader of the blob gets
CollectionOf(b) == IF b.exists /\ b.txt # <<>> THEN Parse(b.txt) ELSE <<>>

\* the id of an element coerced to a string
IdText(id) ==
  CASE id.t = "num" -> id.v
    [] id.t = "str" -> id.v
    [] id.t = "undef" -> "undefined"

SameIdText(e, p) == IdText(e.id) = IdText(p.id)

Elements(c) == {c[i] : i \in 1..Len(c)}

\* what each mutation is to produce
Edited(c, p) == [i \in 1..Len(c) |-> IF SameIdText(c[i], p) THEN p ELSE c[i]]
Deleted(c, p) == LET Keep(e) == ~SameIdText(e, p) IN SelectSeq(c, Keep)
Mutated(a, p, c) ==
  CASE a = "add" -> c \o <<p>>
    [] a = "edit" -> Edited(c, p)
    [] a = "delete" -> Deleted(c, p)

\* position of an event in hist, 0 if it has not happened
Position(r, op) ==
  IF \E i \in 1..Len(hist) : hist[i] = [r |-> r, op |-> op]
    THEN CHOOSE i \in 1..Len(hist) : hist[i] = [r |-> r, op |-> op]
    ELSE 0

HasRead(r) == Position(r, "download") > 0
HasWritten(r) == Position(r, "upload") > 0

Action(r) == req[r].body.action
Property(r) == req[r].body.property

\* the header is absent or does not start with "Bearer "
LacksBearerPrefix(h) ==
  \/ ~h.present
  \/ ~(Len(h.words) >= 2 /\ h.words[1] = "Bearer")

----------------------------------------------------------------------------
(* C1 *)

\* C1: every request whose Authorization header is absent or does not start
\* with "Bearer " is answered 401 "Unauthorized - missing token", whatever its
\* body is, a body that is no JSON included.
C1_MissingTokenIs401 ==
  \A r \in Requests :
    (pc[r] # "idle" /\ LacksBearerPrefix(req[r].hdr))
      => /\ pc[r] = "done"
         /\ resp[r] = Error(401, "Unauthorized - missing token")

----------------------------------------------------------------------------
(* C2 *)

\* the request has a parseable body, a bearer token and a complete configuration,
\* and getUser has returned
C2_Verified(r) ==
  /\ req[r].body.kind # "unparseable"
  /\ req[r].hdr.present /\ Len(req[r].hdr.words) >= 2
  /\ req[r].hdr.words[1] = "Bearer" /\ req[r].hdr.words[2] # ""
  /\ (env.viteUrl \/ env.url) /\ (env.viteAnon \/ env.anon) /\ env.service
  /\ user[r].kind # "none"

\* C2: with a parseable body, a bearer token and a complete configuration, a
\* token the auth provider rejects or that has no user is answered 401 "Invalid
\* token", a valid token whose lower-cased e-mail is no entry of the allowlist is
\* answered 403 "Forbidden - not an admin", and in both cases the request makes
\* no download, no upload and no deploy-hook call and leaves the blob alone.
C2_RejectedBeforeStorage ==
  \A r \in Requests :
    C2_Verified(r) =>
      /\ user[r].kind \in {"error", "nouser"}
           => /\ pc[r] = "done"
              /\ resp[r] = Error(401, "Invalid token")
              /\ calls[r] = {"getUser"}
              /\ ~HasRead(r) /\ ~HasWritten(r)
      /\ (user[r].kind = "user" /\ ~Includes(ADMIN_EMAILS(env.admins), UserEmail(user[r])))
           => /\ pc[r] = "done"
              /\ resp[r] = Error(403, "Forbidden - not an admin")
              /\ calls[r] = {"getUser"}
              /\ ~HasRead(r) /\ ~HasWritten(r)

\* a valid token of a user who is on no allowlist that names an admin is answered 403
C2_Witness ==
  \E r \in Requests :
    /\ C2_Verified(r)
    /\ user[r] = AuthUser(Email("e@x"))
    /\ Includes(ADMIN_EMAILS(env.admins), "a@x")
    /\ resp[r] = Error(403, "Forbidden - not an admin")

----------------------------------------------------------------------------
(* C10 *)

\* C10: a request whose verified user has no e-mail (missing or empty) never
\* passes the authorization step, whatever ADMIN_EMAILS is: only a non-empty
\* e-mail reaches the storage read.
C10_NoEmailNeverAuthorized ==
  \A r \in Requests :
    "download" \in calls[r] => (user[r].email.has /\ user[r].email.v # "")

----------------------------------------------------------------------------
(* C3 *)

\* both requests were answered 200 {ok:true}
C3_BothOk(a, b) == a # b /\ resp[a] = Ok200 /\ resp[b] = Ok200

\* C3: when two authorized requests run one after the other (the second reads
\* after the first has written) and both are answered 200, the stored collection
\* is the second mutation applied to the first mutation applied to what the
\* first request read; and whatever the interleaving, the stored collection
\* after the last upload is the last writer's mutation applied to what that
\* writer read (last writer wins).
C3_SequentialKeepsBoth ==
  \A a \in Requests, b \in Requests :
    C3_BothOk(a, b) =>
      /\ Position(a, "upload") < Position(b, "download")
           => CollectionOf(store) =
                Mutated(Action(b), Property(b),
                        Mutated(Action(a), Property(a), downloaded[a]))
      /\ Position(a, "upload") < Position(b, "upload")
           => CollectionOf(store) = Mutated(Action(b), Property(b), downloaded[b])

\* the lost update: both requests add, both read before either writes, both are
\* answered 200, and the stored collection lacks the first writer's property
C3_LostUpdate ==
  \E a \in Requests, b \in Requests :
    /\ C3_BothOk(a, b)
    /\ Action(a) = "add" /\ Action(b) = "add"
    /\ Position(a, "download") < Position(a, "upload")
    /\ Position(b, "download") < Position(a, "upload")
    /\ Position(a, "upload") < Position(b, "upload")
    /\ Property(a) \notin Elements(CollectionOf(store))
    /\ Property(b) \in Elements(CollectionOf(store))

----------------------------------------------------------------------------
(* C4 *)

\* the request passed the authorization step with a truthy action that is not
\* add, edit or delete, and a truthy property
C4_UnknownAction(r) ==
  /\ "download" \in calls[r]
  /\ req[r].body.kind = "object"
  /\ Action(r) \notin {"", "add", "edit", "delete"}
  /\ Property(r).truthy

C4_Refused(r) ==
  /\ resp[r] = Error(400, "Unknown action")
  /\ "upload" \notin calls[r]
  /\ "fetch" \notin calls[r]
  /\ ~HasWritten(r)
  /\ CollectionOf(store) = downloaded[r]

\* C4 as stated: every authorized request with an unknown action is answered 400
\* "Unknown action", attempts no upload, calls no deploy hook and leaves the
\* stored collection as it was.
C4_UnknownActionAlways400 ==
  \A r \in Requests : (C4_UnknownAction(r) /\ pc[r] = "done") => C4_Refused(r)

\* C4 amended: the same, for the requests whose read step succeeded (the
\* download returned the data or a not-found error).
C4_UnknownActionAfterRead ==
  \A r \in Requests :
    (C4_UnknownAction(r) /\ pc[r] = "done" /\ HasRead(r)) => C4_Refused(r)

C4_Witness ==
  \E r \in Requests :
    /\ C4_UnknownAction(r) /\ pc[r] = "done" /\ HasRead(r)
    /\ Len(downloaded[r]) = 2
    /\ C4_Refused(r)

----------------------------------------------------------------------------
(* C5, C6 *)

\* the upload of request r has succeeded
Succeeded(r) == HasWritten(r) /\ resp[r] \in {None, Ok200}

\* C5: a successful edit writes a collection of the same length and order in
\* which every element whose string-coerced id equals that of property is
\* replaced by property and every other element is kept; with no match the
\* written collection is the one read.
C5_EditReplacesMatches ==
  \A r \in Requests :
    (Action(r) = "edit" /\ Succeeded(r)) =>
      LET c == downloaded[r]
          w == CollectionOf(store)
          p == Property(r)
      IN  /\ Len(w) = Len(c)
          /\ \A i \in 1..Len(c) : w[i] = (IF SameIdText(c[i], p) THEN p ELSE c[i])
          /\ (\A i \in 1..Len(c) : ~SameIdText(c[i], p)) => w = c
          /\ resp[r] = None => pc[r] = "fetch"

\* an edit answered 200 that replaced two elements sharing the coerced id, one
\* with a number id and one with a string id
C5_Witness ==
  \E r \in Requests :
    /\ Action(r) = "edit" /\ resp[r] = Ok200
    /\ Len(downloaded[r]) = 2
    /\ downloaded[r][1].id = NumId("1") /\ downloaded[r][2].id = StrId("1")
    /\ Property(r) = Prop(StrId("1"), 2)
    /\ downloaded[r][1].x = 1 /\ downloaded[r][2].x = 1
    /\ CollectionOf(store) = <<Property(r), Property(r)>>

\* C6: a successful delete writes exactly the elements whose string-coerced id
\* differs from that of property, in their order; so the written collection has
\* no element with that id, and a delete of an id that is not there (a repeated
\* delete) writes the collection it read.
C6_DeleteRemovesMatches ==
  \A r \in Requests :
    (Action(r) = "delete" /\ Succeeded(r)) =>
      LET c == downloaded[r]
          w == CollectionOf(store)
          p == Property(r)
      IN  /\ w = Deleted(c, p)
          /\ \A i \in 1..Len(w) : ~SameIdText(w[i], p)
          /\ (\A i \in 1..Len(c) : ~SameIdText(c[i], p)) => w = c
          /\ resp[r] = None => pc[r] = "fetch"

\* delete of id "1" on [{id:1}, {id:"1"}] answered 200 and left []
C6_Witness ==
  \E r \in Requests :
    /\ Action(r) = "delete" /\ resp[r] = Ok200
    /\ Property(r).id = StrId("1")
    /\ Len(downloaded[r]) = 2
    /\ downloaded[r][1].id = NumId("1") /\ downloaded[r][2].id = StrId("1")
    /\ store = Blob(Stringify(<<>>))

----------------------------------------------------------------------------
(* C7, C8 *)

\* C7: once the upload has succeeded the only response is 200 {ok:true}, given
\* at once when no deploy hook is configured and whatever the deploy-hook call
\* did otherwise (resolved with any status, or thrown); the written collection
\* stays.
C7_HookNeverFailsTheRequest ==
  \A r \in Requests :
    HasWritten(r) =>
      /\ resp[r] \in {None, Ok200}
      /\ ~env.hook => (resp[r] = Ok200 /\ pc[r] = "done" /\ "fetch" \notin calls[r])
      /\ hookOut[r] # "none" => (resp[r] = Ok200 /\ pc[r] = "done")
      /\ CollectionOf(store) = props[r]

C7_Witness ==
  \E r \in Requests :
    /\ HasWritten(r)
    /\ hookOut[r] = "throw"
    /\ resp[r] = Ok200
    /\ CollectionOf(store) = props[r]

----------------------------------------------------------------------------
(* C9 *)

\* C9: a not-found download error makes the request go on with the empty
\* collection, so that a successful add stores exactly [property]; a successful
\* add stores the collection read with property appended; any other download
\* error is answered 500 "Failed to read properties.json: <message>" with no
\* upload and no deploy-hook call.
C9_ReadStep ==
  \A r \in Requests :
    /\ (dl[r].kind = "error" /\ dl[r].status = 404)
         => /\ HasRead(r) /\ downloaded[r] = <<>>
            /\ (Action(r) = "add" /\ Succeeded(r)) => CollectionOf(store) = <<Property(r)>>
    /\ (Action(r) = "add" /\ Succeeded(r))
         => CollectionOf(store) = downloaded[r] \o <<Property(r)>>
    /\ (dl[r].kind = "error" /\ dl[r].status # 404)
         => /\ pc[r] = "done"
            /\ resp[r] = Error(500, "Failed to read properties.json: storage unavailable")
            /\ "upload" \notin calls[r] /\ "fetch" \notin calls[r]
            /\ ~HasWritten(r)

C9_Witness ==
  \E r \in Requests :
    /\ dl[r].kind = "error" /\ dl[r].status = 404
    /\ Action(r) = "add" /\ resp[r] = Ok200
    /\ CollectionOf(store) = <<Property(r)>>

============================================================================
